---- MODULE Spec2Model ----
(***************************************************************************)
(* Model of crates/completions/src/parser.rs: the cursor-sensitive link    *)
(* query parser (Parser::parse_query over MDLinkParser::parse).            *)
(*                                                                         *)
(* A line is a sequence of one-character strings; offsets are 0-based as   *)
(* in the source, so the slice hay[a..b) is SubSeq(hay, a + 1, b).         *)
(* The four regular expressions are built as syntax trees exactly as the   *)
(* format! calls assemble them, and matched by a backtracking matcher      *)
(* with the preference order of the regex crate (leftmost-first).          *)
(***************************************************************************)
EXTENDS Integers, Sequences, FiniteSets, TLC

VARIABLES hay, hasLine, character, pc, kind, result

vars == <<hay, hasLine, character, pc, kind, result>>

----------------------------------------------------------------------------
(* Bounds of the model *)

\* Largest number of pieces a line is made of.
MaxPieces == 3

\* How far beyond the end of the line the cursor offset may lie.
MaxPastEnd == 1

\* Largest number of pieces that follow an earlier finished reference.
MaxTailPieces == 2

\* Largest length of the payload of a framed reference.
MaxPayload == 3

----------------------------------------------------------------------------
(* Regular expression syntax trees *)

Lit(c) == [t |-> "lit", c |-> c]
NotIn(s) == [t |-> "notin", s |-> s]
In(s) == [t |-> "in", s |-> s]
Cat(rs) == [t |-> "cat", rs |-> rs]
Alt(a, b) == [t |-> "alt", a |-> a, b |-> b]
\* r? (greedy) and r?? (lazy)
Opt(r) == [t |-> "opt", r |-> r, greedy |-> TRUE]
OptLazy(r) == [t |-> "opt", r |-> r, greedy |-> FALSE]
\* r*? (lazy)
StarLazy(r) == [t |-> "star", r |-> r]
\* (?<name>r)
Group(name, r) == [t |-> "group", name |-> name, r |-> r]
\* $ (no multi-line flag: end of the haystack only)
EndOfHay == [t |-> "end"]
\* continuation marker: the named group opened at start closes here
CloseGroup(name, start) == [t |-> "close", name |-> name, start |-> start]

GroupNames == {"file_ref", "index", "heading", "grep", "display"}

\* A group that did not participate in the match (Captures::name gives None).
NoSpan == <<-1, -1>>

NoCaptures == [n \in GroupNames |-> NoSpan]

NoMatch == [ok |-> FALSE, start |-> 0, end |-> 0, caps |-> NoCaptures]

\* The match of the regex continuation cont on h at offset pos that a
\* backtracking matcher finds first; caps are the groups closed so far.
RECURSIVE MatchHere(_, _, _, _)
MatchHere(cont, h, pos, caps) ==
    IF cont = <<>>
    THEN [ok |-> TRUE, start |-> 0, end |-> pos, caps |-> caps]
    ELSE
      LET r == Head(cont)
          k == Tail(cont)
      IN CASE r.t = "lit" ->
                IF pos < Len(h) /\ h[pos + 1] = r.c
                THEN MatchHere(k, h, pos + 1, caps) ELSE NoMatch
           [] r.t = "notin" ->
                IF pos < Len(h) /\ h[pos + 1] \notin r.s
                THEN MatchHere(k, h, pos + 1, caps) ELSE NoMatch
           [] r.t = "in" ->
                IF pos < Len(h) /\ h[pos + 1] \in r.s
                THEN MatchHere(k, h, pos + 1, caps) ELSE NoMatch
           [] r.t = "end" ->
                IF pos = Len(h) THEN MatchHere(k, h, pos, caps) ELSE NoMatch
           [] r.t = "cat" -> MatchHere(r.rs \o k, h, pos, caps)
           [] r.t = "alt" ->
                LET first == MatchHere(<<r.a>> \o k, h, pos, caps)
                IN IF first.ok THEN first
                   ELSE MatchHere(<<r.b>> \o k, h, pos, caps)
           [] r.t = "opt" ->
                IF r.greedy
                THEN LET taken == MatchHere(<<r.r>> \o k, h, pos, caps)
                     IN IF taken.ok THEN taken ELSE MatchHere(k, h, pos, caps)
                ELSE LET skipped == MatchHere(k, h, pos, caps)
                     IN IF skipped.ok THEN skipped
                        ELSE MatchHere(<<r.r>> \o k, h, pos, caps)
           [] r.t = "star" ->
                LET skipped == MatchHere(k, h, pos, caps)
                IN IF skipped.ok THEN skipped
                   ELSE MatchHere(<<r.r, r>> \o k, h, pos, caps)
           [] r.t = "group" ->
                MatchHere(<<r.r, CloseGroup(r.name, pos)>> \o k, h, pos, caps)
           [] r.t = "close" ->
                MatchHere(k, h, pos,
                          [caps EXCEPT ![r.name] = <<r.start, pos>>])

\* Regex::captures_at: the leftmost match of re on h starting at or after from.
RECURSIVE CapturesAt(_, _, _)
CapturesAt(re, h, from) ==
    IF from > Len(h) THEN NoMatch
    ELSE LET m == MatchHere(<<re>>, h, from, NoCaptures)
         IN IF m.ok THEN [m EXCEPT !.start = from]
            ELSE CapturesAt(re, h, from + 1)

----------------------------------------------------------------------------
(* The grammars, assembled as MDLinkParser::parse assembles them *)

\* r"(([^\[\]\(\)]|\\)[\[\]]?)"
link_char ==
    Cat(<<Alt(NotIn({"[", "]", "(", ")"}), Lit("\\")), Opt(In({"[", "]"}))>>)

\* NamedRefCmdQuery::associated_regex_constructor
\* (?<file_ref>C*?)(#((\^(?<index>C*?))|(?<heading>C*?)))??
NamedRefRegexConstructor(char_class) ==
    Cat(<<Group("file_ref", StarLazy(char_class)),
          OptLazy(Cat(<<Lit("#"),
                        Alt(Cat(<<Lit("^"),
                                  Group("index", StarLazy(char_class))>>),
                            Group("heading", StarLazy(char_class)))>>))>>)

\* Mutant: the block grammar without its leading space.
BlockLinkRegexNoSpace(char_class) == Group("grep", StarLazy(char_class))

\* BlockLinkCmdQuery::associated_regex_constructor:  " (?<grep>C*?)"
BlockLinkRegexConstructor(char_class) ==
    Cat(<<Lit(" "), Group("grep", StarLazy(char_class))>>)

Kinds == {"entity", "block"}

\* T::associated_regex_constructor(link_char)
query_re(T) ==
    IF T = "entity" THEN NamedRefRegexConstructor(link_char)
    ELSE BlockLinkRegexConstructor(link_char)

\* \[\[{query_re}(\|(?<display>{link_char}*?))?\]\]
wiki_re_with_closing(T) ==
    Cat(<<Lit("["), Lit("["), query_re(T),
          Opt(Cat(<<Lit("|"), Group("display", StarLazy(link_char))>>)),
          Lit("]"), Lit("]")>>)

\* \[\[{query_re}$
wiki_re_without_closing(T) ==
    Cat(<<Lit("["), Lit("["), query_re(T), EndOfHay>>)

\* Mutant: the display group of the link pair made optional, present only
\* when display text was typed.
md_re_optional_display(T) ==
    Cat(<<Lit("["),
          Opt(Group("display", Cat(<<link_char, StarLazy(link_char)>>))),
          Lit("]"), Lit("("), query_re(T), Lit(")")>>)

\* \[(?<display>{link_char}*?)\]\({query_re}\)
md_re_with_closing(T) ==
    Cat(<<Lit("["), Group("display", StarLazy(link_char)), Lit("]"), Lit("("),
          query_re(T), Lit(")")>>)

\* \[(?<display>{link_char}*?)\]\({query_re}$
md_re_without_closing(T) ==
    Cat(<<Lit("["), Group("display", StarLazy(link_char)), Lit("]"), Lit("("),
          query_re(T), EndOfHay>>)

----------------------------------------------------------------------------
(* The cursor-aware matcher *)

\* Mutant: containment inclusive of both ends.
RangeContainsInclusive(start, end, item) == start <= item /\ item <= end

\* Range<usize>::contains: start <= item < end
RangeContains(start, end, item) == start <= item /\ item < end

\* Where captures_iter resumes after a match: at its end, one further on
\* after an empty match.
NextSearchStart(m) == IF m.end > m.start THEN m.end ELSE m.end + 1

\* Mutant: the first match of the line, wherever the cursor is.
FindFirst(re, h, from, ch) == CapturesAt(re, h, from)

\* re.captures_iter(h).find(|c| c.get(0).is_some_and(|m| m.range().contains(&ch)))
RECURSIVE FindContaining(_, _, _, _)
FindContaining(re, h, from, ch) ==
    LET m == CapturesAt(re, h, from)
    IN IF ~m.ok THEN NoMatch
       ELSE IF RangeContains(m.start, m.end, ch) THEN m
       ELSE FindContaining(re, h, NextSearchStart(m), ch)

\* re.captures_iter(h).find(|c| c.get(0).is_some_and(|m| m.range().start < ch))
RECURSIVE FindStartingBefore(_, _, _, _)
FindStartingBefore(re, h, from, ch) ==
    LET m == CapturesAt(re, h, from)
    IN IF ~m.ok THEN NoMatch
       ELSE IF m.start < ch THEN m
       ELSE FindStartingBefore(re, h, NextSearchStart(m), ch)

\* Mutant: the unclosed patterns searched over the whole line.
SliceWholeLine(h, ch) == h

\* &self.hay[..self.character]; the slice panics when the offset is past the end
SliceTo(h, ch) == SubSeq(h, 1, ch)

\* Mutant: the link-pair patterns tried before the bracket-pair patterns.
StepOrderMarkdownFirst ==
    <<"md_closed", "md_unclosed", "wiki_closed", "wiki_unclosed">>

\* The steps of the or_else chain, in the order they are tried.
StepOrder == <<"wiki_closed", "wiki_unclosed", "md_closed", "md_unclosed">>

StepLinkType(step) ==
    IF step \in {"wiki_closed", "md_closed"} THEN "Closed" ELSE "Unclosed"

StepSyntaxType(step) ==
    IF step \in {"wiki_closed", "wiki_unclosed"} THEN "Wiki" ELSE "Markdown"

\* A step reads the full line (closed) or slices it at the cursor (unclosed).
StepSlices(step) == StepLinkType(step) = "Unclosed"

\* The candidate a step selects, NoMatch when it has none.
StepMatch(step, T, h, ch) ==
    CASE step = "wiki_closed" ->
           FindContaining(wiki_re_with_closing(T), h, 0, ch)
      [] step = "wiki_unclosed" ->
           FindStartingBefore(wiki_re_without_closing(T), SliceTo(h, ch), 0, ch)
      [] step = "md_closed" ->
           FindContaining(md_re_with_closing(T), h, 0, ch)
      [] step = "md_unclosed" ->
           FindStartingBefore(md_re_without_closing(T), SliceTo(h, ch), 0, ch)

\* Outcome of the or_else chain from step i on: the first step with a
\* candidate, "none" when the chain is exhausted, "panic" when a step that
\* slices the line is reached with the cursor past the end of the line.
RECURSIVE Chain(_, _, _, _)
Chain(i, T, h, ch) ==
    IF i > Len(StepOrder) THEN [status |-> "none", step |-> "none", m |-> NoMatch]
    ELSE LET step == StepOrder[i]
         IN IF StepSlices(step) /\ ch > Len(h)
            THEN [status |-> "panic", step |-> step, m |-> NoMatch]
            ELSE LET m == StepMatch(step, T, h, ch)
                 IN IF m.ok THEN [status |-> "some", step |-> step, m |-> m]
                    ELSE Chain(i + 1, T, h, ch)

\* Mutant: every span ends at the cursor.
CharRangeToCursor(m, link_type, ch) == <<m.start, ch>>

\* c.get(0)?.range().start..(match link_type { Closed => end, Unclosed => character })
CharRange(m, link_type, ch) ==
    <<m.start, IF link_type = "Closed" THEN m.end ELSE ch>>

\* Option<&str> of a capture group
NoneStr == [some |-> FALSE, text |-> <<>>]
SomeStr(s) == [some |-> TRUE, text |-> s]

CaptureName(m, h, name) ==
    IF m.caps[name] = NoSpan THEN NoneStr
    ELSE SomeStr(SubSeq(h, m.caps[name][1] + 1, m.caps[name][2]))

----------------------------------------------------------------------------
(* Typed queries *)

NoInfile == [tag |-> "None", text |-> <<>>]
Heading(s) == [tag |-> "Heading", text |-> s]
Index(s) == [tag |-> "Index", text |-> s]

NoQuery == [some |-> FALSE]

\* NamedRefCmdQuery::from_captures
NamedRefFromCaptures(m, h) ==
    LET file_ref == CaptureName(m, h, "file_ref")
        heading == CaptureName(m, h, "heading")
        index == CaptureName(m, h, "index")
    IN IF ~file_ref.some THEN NoQuery
       ELSE [some |-> TRUE,
             file_query |-> file_ref.text,
             infile_query |->
               IF heading.some THEN Heading(heading.text)
               ELSE IF index.some THEN Index(index.text)
               ELSE NoInfile]

\* BlockLinkCmdQuery::from_captures
BlockLinkFromCaptures(m, h) ==
    LET grep == CaptureName(m, h, "grep")
    IN IF ~grep.some THEN NoQuery
       ELSE [some |-> TRUE, grep_string |-> grep.text]

\* T::from_captures
from_captures(T, m, h) ==
    IF T = "entity" THEN NamedRefFromCaptures(m, h)
    ELSE BlockLinkFromCaptures(m, h)

\* str::replace(from, to) for a two-character pattern: non-overlapping
\* occurrences, left to right.
RECURSIVE Replace2(_, _, _, _)
Replace2(s, a, b, to) ==
    IF Len(s) = 0 THEN <<>>
    ELSE IF Len(s) >= 2 /\ s[1] = a /\ s[2] = b
         THEN to \o Replace2(SubSeq(s, 3, Len(s)), a, b, to)
         ELSE <<s[1]>> \o Replace2(Tail(s), a, b, to)

\* Mutant: only the escaped opening bracket is unescaped.
GrepStringOpeningOnly(q) == Replace2(q.grep_string, "\\", "[", <<"[">>)

\* BlockLinkCmdQuery::grep_string
grep_string(q) ==
    Replace2(Replace2(q.grep_string, "\\", "[", <<"[">>), "\\", "]", <<"]">>)

\* BlockLinkCmdQuery::display_grep_string
display_grep_string(q) ==
    Replace2(Replace2(q.grep_string, "\\", "[", <<>>), "\\", "]", <<>>)

\* NamedRefCmdQuery::grep_string
NamedRefGrepString(q) ==
    CASE q.infile_query.tag = "Heading" ->
           q.file_query \o <<"#">> \o q.infile_query.text
      [] q.infile_query.tag = "Index" ->
           q.file_query \o <<"#", "^">> \o q.infile_query.text
      [] OTHER -> q.file_query

----------------------------------------------------------------------------
(* MDLinkParser::parse and the facade *)

\* Mutant: an empty display suffix reported as no display.
WikiDisplayNonEmpty(display) ==
    IF display.text = <<>> THEN NoneStr ELSE display

\* QuerySyntaxTypeInfo::Wiki { display: display.map(ToString::to_string) }
WikiDisplay(display) == display

Outcome(status, msg) ==
    [status |-> status, panic |-> msg, query |-> NoQuery,
     char_range |-> <<0, 0>>, syntax |-> "none", display |-> NoneStr,
     link_type |-> "none"]

NoResult == Outcome("none", "")

\* MDLinkParser::new(hay, character).parse::<T>()
\* status "some": Some((query, char_range, QuerySyntaxInfo));
\* status "none": None;  status "panic": the call aborts.
\* link_type is the local ParsedLinkType of the selected match.
Parse(T, h, ch) ==
    LET c == Chain(1, T, h, ch)
    IN IF c.status = "none" THEN NoResult
       ELSE IF c.status = "panic"
       THEN Outcome("panic", "byte index out of range")
       ELSE
         LET link_type == StepLinkType(c.step)
             syntax_type == StepSyntaxType(c.step)
             display == CaptureName(c.m, h, "display")
             q == from_captures(T, c.m, h)
         IN IF ~q.some THEN NoResult
            ELSE IF syntax_type = "Markdown" /\ ~display.some
            THEN Outcome("panic",
                         "that the display should not be none on markdown link")
            ELSE [status |-> "some", panic |-> "", query |-> q,
                  char_range |-> CharRange(c.m, link_type, ch),
                  syntax |-> syntax_type,
                  display |-> IF syntax_type = "Wiki" THEN WikiDisplay(display)
                              ELSE display,
                  link_type |-> link_type]

\* Parser::parse_query: the line lookup, then the matcher
ParseQuery(T, present, h, ch) ==
    IF ~present THEN NoResult ELSE Parse(T, h, ch)

\* QuerySyntaxInfo::display
Display(r) == r.display

----------------------------------------------------------------------------
(* Inputs *)

\* What a line is made of: every character the grammars tell apart, and
\* the delimiters typed as a unit.
Pieces ==
    {<<"[", "[">>, <<"]", "]">>, <<"]", "(">>, <<"[">>, <<"]">>, <<"(">>,
     <<")">>, <<"#">>, <<"^">>, <<"|">>, <<" ">>, <<"\\">>, <<"a">>}

RECURSIVE LinesOf(_)
LinesOf(n) ==
    IF n = 0 THEN {<<>>}
    ELSE LET shorter == LinesOf(n - 1)
         IN shorter \cup {l \o p : l \in shorter, p \in Pieces}

\* Every line of at most MaxPieces pieces.
Lines == LinesOf(MaxPieces)

\* A finished reference earlier on the line: [[ a]]
EarlierLink == <<"[", "[", " ", "a", "]", "]">>

\* Lines that go on after a finished reference.
LinesAfterLink == {EarlierLink \o l : l \in LinesOf(MaxTailPieces)}

\* Lines holding one reference: a payload between an opener and a closer
\* (no closer: the reference is still being typed).
PayloadChars == {"a", "#", "^", "|", "\\", "[", "]"}

RECURSIVE PayloadsOf(_)
PayloadsOf(n) ==
    IF n = 0 THEN {<<>>}
    ELSE LET shorter == PayloadsOf(n - 1)
         IN shorter \cup {l \o <<c>> : l \in shorter, c \in PayloadChars}

\* [[P]]  [[P  [a](P)  [a](P
EntityFrames ==
    {<< <<"[", "[">>, <<"]", "]">> >>,
     << <<"[", "[">>, <<>> >>,
     << <<"[", "a", "]", "(">>, <<")">> >>,
     << <<"[", "a", "]", "(">>, <<>> >>}

\* [[ P]]  [[ P
BlockFrames ==
    {<< <<"[", "[", " ">>, <<"]", "]">> >>,
     << <<"[", "[", " ">>, <<>> >>}

Framed(frames) ==
    {f[1] \o p \o f[2] : f \in frames, p \in PayloadsOf(MaxPayload)}

\* The line of test_escaped_brackets, its word shortened:  [[ \[\[a\]\]]]
EscapedBracketsLine ==
    <<"[", "[", " ", "\\", "[", "\\", "[", "a", "\\", "]", "\\", "]", "]", "]">>

PayloadLines == Framed(EntityFrames)

BlockPayloadLines == Framed(BlockFrames) \cup {EscapedBracketsLine}

\* A complete reference later on the line:  [[a]]
LaterLink == <<" ", "[", "[", "a", "]", "]">>

\* The characters of the queries still being typed.
QueryChars == {"a", "#", "^", "|", "]"}

\* [[P  [a](P  [[ P, each alone on the line and before a later reference
UnclosedFrames ==
    {<<o, c>> : o \in {<<"[", "[">>, <<"[", "a", "]", "(">>, <<"[", "[", " ">>},
                c \in {<<>>, LaterLink}}

\* Lines holding a reference that is still being typed.
UnclosedLines ==
    {f[1] \o p \o f[2] :
       f \in UnclosedFrames,
       p \in {q \in PayloadsOf(MaxPayload) :
                \A i \in 1..Len(q) : q[i] \in QueryChars}}

----------------------------------------------------------------------------
(* The state machine: one request, answered by one of the two entry points *)

\* A request: the line the line source holds at the location (or none),
\* and the cursor offset of the location.
InitOn(lines) ==
    /\ hasLine \in BOOLEAN
    /\ hay \in (IF hasLine THEN lines ELSE {<<>>})
    /\ character \in 0..(Len(hay) + MaxPastEnd)
    /\ pc = "ready"
    /\ kind = "none"
    /\ result = NoResult

Init == InitOn(Lines)

InitAfterLink == InitOn(LinesAfterLink)

InitPayload == InitOn(PayloadLines)

InitBlockPayload == InitOn(BlockPayloadLines)

InitUnclosed == InitOn(UnclosedLines)

\* Parser::parse_entity_query
ParseEntityQuery ==
    /\ pc = "ready"
    /\ pc' = "done"
    /\ kind' = "entity"
    /\ result' = ParseQuery("entity", hasLine, hay, character)
    /\ UNCHANGED <<hay, hasLine, character>>

\* Parser::parse_block_query
ParseBlockQuery ==
    /\ pc = "ready"
    /\ pc' = "done"
    /\ kind' = "block"
    /\ result' = ParseQuery("block", hasLine, hay, character)
    /\ UNCHANGED <<hay, hasLine, character>>

Next == ParseEntityQuery \/ ParseBlockQuery

Spec == Init /\ [][Next]_vars

SpecAfterLink == InitAfterLink /\ [][Next]_vars

SpecPayload == InitPayload /\ [][Next]_vars

SpecBlockPayload == InitBlockPayload /\ [][Next]_vars

SpecUnclosed == InitUnclosed /\ [][Next]_vars

----------------------------------------------------------------------------
(* Vocabulary of the claims *)

Done == pc = "done"

Returned == Done /\ result.status = "some"

\* hay[a..b)
Slice(a, b) == SubSeq(hay, a + 1, b)

RangeStart == result.char_range[1]
RangeEnd == result.char_range[2]

\* the line reads s at offset pos
ReadsAt(pos, s) == pos >= 0 /\ pos + Len(s) <= Len(hay) /\ Slice(pos, pos + Len(s)) = s

OpeningDelimiter == IF result.syntax = "Wiki" THEN <<"[", "[">> ELSE <<"[">>
ClosingDelimiter == IF result.syntax = "Wiki" THEN <<"]", "]">> ELSE <<")">>

DisplayAbort == "that the display should not be none on markdown link"

----------------------------------------------------------------------------
(* The claims *)

\* C1: whenever parse returns a result, for either query kind, the cursor
\* lies within or at the boundary of the returned span:
\* char_range.start <= cursor <= char_range.end.
C1_CursorWithinRange ==
    Returned => RangeStart <= character /\ character <= RangeEnd

C1_Witness ==
    Returned /\ RangeStart < character /\ character < RangeEnd

\* C3: a result of an unclosed pattern spans from the opening delimiter of
\* the match to the cursor exactly, whatever follows the cursor; a result of
\* a closed pattern spans the delimited construct, from its opening
\* delimiter through its closing delimiter.
C3_SpanOfMatch ==
    Returned =>
      /\ ReadsAt(RangeStart, OpeningDelimiter)
      /\ RangeStart + Len(OpeningDelimiter) <= RangeEnd
      /\ result.link_type = "Unclosed" => RangeEnd = character
      /\ result.link_type = "Closed" =>
           /\ RangeStart + Len(OpeningDelimiter) + Len(ClosingDelimiter) <= RangeEnd
           /\ ReadsAt(RangeEnd - Len(ClosingDelimiter), ClosingDelimiter)

C3_Witness ==
    Returned /\ result.link_type = "Unclosed" /\ character < Len(hay)

\* C6: a selected Markdown match always carries its display capture: the
\* result's display is Some (possibly empty), and the abort on a missing
\* display is never reached.
C6_MarkdownDisplayPresent ==
    Done =>
      /\ result.panic # DisplayAbort
      /\ result.syntax = "Markdown" => Display(result).some

C6_Witness ==
    Returned /\ result.syntax = "Markdown" /\ Display(result) = SomeStr(<<>>)

\* C8: for every line lookup outcome and every cursor offset, offsets past
\* the end of the line included, both entry points complete with a result
\* or with no result, never with an abort.
C8_NeverAborts ==
    Done => result.status \in {"some", "none"}

----------------------------------------------------------------------------
(* C2, C7, C10 *)

Delimiters == {"[", "]", "(", ")"}

\* hay[a..b) holds no bracket and no parenthesis
PlainText(a, b) == \A i \in (a + 1)..b : hay[i] \notin Delimiters

\* no "]]" ends after the cursor: nothing closes a reference the cursor is in
NothingClosesAfterCursor ==
    \A i \in 1..(Len(hay) - 1) :
        ~(hay[i] = "]" /\ hay[i + 1] = "]" /\ i >= character)

\* After the finished reference that opens the line, a later "[[" at offset
\* q is still being typed and the cursor is inside it (for a block query,
\* after its leading space).
CursorInUnclosedWikiAt(q) ==
    /\ ReadsAt(0, EarlierLink)
    /\ q >= Len(EarlierLink)
    /\ ReadsAt(q, <<"[", "[">>)
    /\ q + 2 <= character
    /\ character <= Len(hay)
    /\ PlainText(q + 2, character)
    /\ kind = "block" => ReadsAt(q + 2, <<" ">>) /\ q + 3 <= character
    /\ NothingClosesAfterCursor

\* The step a result was taken from, as its position in the documented
\* order wiki-closed, wiki-unclosed, markdown-closed, markdown-unclosed.
DocumentedOrder == <<"wiki_closed", "wiki_unclosed", "md_closed", "md_unclosed">>

ResultStep ==
    CHOOSE i \in 1..4 :
        /\ StepSyntaxType(DocumentedOrder[i]) = result.syntax
        /\ StepLinkType(DocumentedOrder[i]) = result.link_type

\* C2: the result is that of the first step, in the order wiki-closed,
\* wiki-unclosed, markdown-closed, markdown-unclosed, that has a qualifying
\* match; and on a line with a closed wiki reference followed by an unclosed
\* "[[" that holds the cursor, the result has Wiki syntax and spans from
\* that later "[[" to the cursor: it is never a Markdown result.
C2_PriorityOrder ==
    /\ Returned =>
         \A i \in 1..(ResultStep - 1) :
             ~StepMatch(DocumentedOrder[i], kind, hay, character).ok
    /\ Done /\ hasLine =>
         \A q \in 0..Len(hay) :
             CursorInUnclosedWikiAt(q) =>
               /\ result.status = "some"
               /\ result.syntax = "Wiki"
               /\ result.link_type = "Unclosed"
               /\ result.char_range = <<q, character>>

C2_Witness ==
    /\ Returned
    /\ \E q \in 0..Len(hay) :
           CursorInUnclosedWikiAt(q) /\ q + 2 < character

\* C7 as claimed: parse_block_query never returns a Markdown (link-pair)
\* result.
C7_BlockNeverMarkdown ==
    Returned /\ kind = "block" => result.syntax # "Markdown"

\* C7 as amended: a block query is recognized only where its search text
\* follows a literal space placed right after the opening delimiter: after
\* "[[" for a Wiki result, after "](" for a Markdown result (which the
\* block entry point does return); the raw grep string is the text after
\* that space, so no Wiki result comes from a reference whose text does not
\* start with a space.
C7_BlockAfterSpace ==
    Returned /\ kind = "block" =>
      LET opener ==
            IF result.syntax = "Wiki" THEN <<"[", "[", " ">>
            ELSE <<"[">> \o Display(result).text \o <<"]", "(", " ">>
          g == result.query.grep_string
      IN /\ ReadsAt(RangeStart, opener)
         /\ ReadsAt(RangeStart + Len(opener), g)

C7_Witness ==
    Returned /\ kind = "block" /\ result.syntax = "Markdown"

\* C10 as claimed: a cursor exactly at the end offset of a closed reference
\* (right after its closing delimiter) selects that reference.
C10_EndOffsetSelects ==
    Done /\ hasLine /\ kind = "entity" /\ ReadsAt(0, EarlierLink)
         /\ character = Len(EarlierLink)
      => result.status = "some" /\ result.char_range = <<0, Len(EarlierLink)>>

\* C10 as amended: a closed step selects the first non-overlapping match
\* whose span contains the cursor with start <= cursor < end. An earlier
\* closed reference that does not contain the cursor is never returned: with
\* the cursor inside a second closed reference, the result starts at that
\* second reference. A cursor exactly at the end offset of a closed
\* reference does not select it.
C10_FirstContainingHalfOpen ==
    /\ Returned /\ result.link_type = "Closed" =>
         RangeStart <= character /\ character < RangeEnd
    /\ Done /\ hasLine /\ ReadsAt(0, EarlierLink) =>
         LET second == Len(EarlierLink)
         IN \A e \in (second + 2)..Len(hay) :
              /\ ReadsAt(second, <<"[", "[">>)
              /\ kind = "block" => ReadsAt(second + 2, <<" ">>)
              /\ PlainText(second + 2, e)
              /\ ReadsAt(e, <<"]", "]">>)
              /\ second <= character /\ character < e + 2
              => /\ result.status = "some"
                 /\ result.syntax = "Wiki"
                 /\ result.link_type = "Closed"
                 /\ RangeStart = second
                 /\ RangeEnd >= e + 2

C10_Witness ==
    /\ Returned /\ result.link_type = "Closed"
    /\ ReadsAt(0, EarlierLink)
    /\ RangeStart = Len(EarlierLink)
    /\ RangeStart < character

----------------------------------------------------------------------------
(* C4, C5, C9 *)

\* Where the payload of the returned reference lies on the line: after the
\* opening delimiter (and, for a link pair, the display and "]("), up to
\* the display suffix, the closing delimiter or, unclosed, the cursor.
PayloadStart ==
    IF result.syntax = "Wiki" THEN RangeStart + 2
    ELSE RangeStart + 1 + Len(Display(result).text) + 2

PayloadEnd ==
    IF result.link_type = "Unclosed" THEN character
    ELSE IF result.syntax = "Markdown" THEN RangeEnd - 1
    ELSE IF Display(result).some THEN RangeEnd - 2 - Len(Display(result).text) - 1
    ELSE RangeEnd - 2

Payload == Slice(PayloadStart, PayloadEnd)

Brackets == {"[", "]"}

\* every bracket of s follows a backslash (section 4.1 of the specification)
ReferenceSafe(s) ==
    \A i \in 1..Len(s) : s[i] \in Brackets => i > 1 /\ s[i - 1] = "\\"

Has(s, c) == \E i \in 1..Len(s) : s[i] = c

FirstIndexOf(s, c) == CHOOSE i \in 1..Len(s) : s[i] = c /\ \A j \in 1..(i - 1) : s[j] # c

\* The query the claim gives for payload p: F, F#H or F#^I.
ExpectedEntityQuery(p) ==
    IF ~Has(p, "#")
    THEN [some |-> TRUE, file_query |-> p, infile_query |-> NoInfile]
    ELSE LET at == FirstIndexOf(p, "#")
             rest == SubSeq(p, at + 1, Len(p))
         IN [some |-> TRUE,
             file_query |-> SubSeq(p, 1, at - 1),
             infile_query |->
               IF Len(rest) > 0 /\ rest[1] = "^" THEN Index(Tail(rest))
               ELSE Heading(rest)]

\* C4: for an entity query with payload F, F#H or F#^I, file_query is the
\* text before the first "#" and never holds a "#"; infile_query is None
\* without a "#", Index(I) when "^" follows the "#" and Heading(H)
\* otherwise; [[a#]] gives Heading(""), [[a#^]] gives Index("") and [[a]]
\* gives None.
C4_EntityPayloadSplit ==
    /\ Returned /\ kind = "entity" =>
         /\ result.query = ExpectedEntityQuery(Payload)
         /\ ~Has(result.query.file_query, "#")
    /\ Done /\ hasLine /\ kind = "entity" /\ character \in 2..3 =>
         /\ hay = <<"[", "[", "a", "#", "]", "]">> =>
              result.query.infile_query = Heading(<<>>)
         /\ hay = <<"[", "[", "a", "#", "^", "]", "]">> =>
              result.query.infile_query = Index(<<>>)
         /\ hay = <<"[", "[", "a", "]", "]">> =>
              result.query.infile_query = NoInfile

\* C4 on the payloads whose brackets are all escaped (the reference-safe
\* text of section 4.1): there the split is as claimed.
C4_SplitOfReferenceSafePayload ==
    Returned /\ kind = "entity" /\ ReferenceSafe(Payload) =>
      /\ result.query = ExpectedEntityQuery(Payload)
      /\ ~Has(result.query.file_query, "#")

\* The two accessors as the claim words them: one pass over the raw text,
\* each backslash-bracket pair replaced by the bracket (keep) or dropped.
RECURSIVE MapEscapedBrackets(_, _)
MapEscapedBrackets(s, keep) ==
    IF Len(s) = 0 THEN <<>>
    ELSE IF Len(s) >= 2 /\ s[1] = "\\" /\ s[2] \in Brackets
         THEN (IF keep THEN <<s[2]>> ELSE <<>>)
                \o MapEscapedBrackets(SubSeq(s, 3, Len(s)), keep)
         ELSE <<s[1]>> \o MapEscapedBrackets(Tail(s), keep)

\* C9: for a block query with raw captured text R, grep_string() is R with
\* every backslash-bracket pair replaced by the bracket, display_grep_string()
\* is R with every such pair removed, and R itself is the text of the line,
\* escapes included; payload \[\[a\]\] gives [[a]] and a.
C9_EscapedBrackets ==
    /\ Returned /\ kind = "block" =>
         LET R == result.query.grep_string
         IN /\ R = Slice(PayloadStart + 1, PayloadEnd)
            /\ grep_string(result.query) = MapEscapedBrackets(R, TRUE)
            /\ display_grep_string(result.query) = MapEscapedBrackets(R, FALSE)
    /\ Done /\ hasLine /\ kind = "block" /\ hay = EscapedBracketsLine
            /\ character \in 0..(Len(hay) - 1) =>
         /\ result.status = "some"
         /\ result.query.grep_string = SubSeq(hay, 4, Len(hay) - 2)
         /\ grep_string(result.query) = <<"[", "[", "a", "]", "]">>
         /\ display_grep_string(result.query) = <<"a">>

C9_Witness ==
    /\ Returned /\ kind = "block" /\ hay = EscapedBracketsLine
    /\ grep_string(result.query) = <<"[", "[", "a", "]", "]">>

----------------------------------------------------------------------------
(* C5 *)

\* The text of a returned bracket-pair reference between "[[" and "]]"
\* (unclosed: between "[[" and the cursor).
WikiInner ==
    Slice(RangeStart + 2,
          IF result.link_type = "Closed" THEN RangeEnd - 2 ELSE character)

OpensDisplay(s, i) == s[i] = "|" /\ (i < Len(s) => s[i + 1] \notin Brackets)

CapturedFields ==
    (IF kind = "entity"
     THEN {result.query.file_query, result.query.infile_query.text}
     ELSE {result.query.grep_string})
      \cup (IF Display(result).some THEN {Display(result).text} ELSE {})

Parens == {"(", ")"}

NoParens(s) == \A i \in 1..Len(s) : s[i] \notin Parens

\* C11 as claimed: in every returned result each captured free-text field
\* (file_query, heading or index text, raw grep string, display) holds no
\* "(" or ")" and holds "[" or "]" only directly after a backslash; an
\* unescaped bracket ends the match and is never part of a captured field.
C11_FieldsReferenceSafe ==
    Returned => \A f \in CapturedFields : NoParens(f) /\ ReferenceSafe(f)

\* What link_char does guarantee for the captured fields: no parenthesis,
\* no bracket at the start of a field and no two brackets in a row, since a
\* bracket is taken only as the optional tail of a non-bracket character.
C11_BracketsOnlyAsTails ==
    Returned =>
      \A f \in CapturedFields :
        /\ NoParens(f)
        /\ \A i \in 1..Len(f) :
             f[i] \in Brackets => i > 1 /\ f[i - 1] \notin Brackets

\* the text of a query: NamedRefCmdQuery::grep_string() of an entity query,
\* the raw grep string of a block query
QueryText ==
    IF kind = "entity" THEN NamedRefGrepString(result.query)
    ELSE result.query.grep_string

\* the line cut at the cursor
BeforeCursor == SubSeq(hay, 1, character)

\* C12: for a result of an unclosed pattern the query is derived only from
\* the text between the opening delimiter and the cursor: the result is the
\* one the line cut at the cursor gives, the range ends at the cursor and
\* the text of the query is the text that ends at the cursor, so nothing at
\* or after the cursor (a later complete reference included) is in it; for
\* an unclosed Wiki entity result grep_string() (file, file#heading or
\* file#^index) is the line from just after "[[" up to the cursor.
C12_UnclosedQueryBeforeCursor ==
    Returned /\ result.link_type = "Unclosed" =>
      /\ result = Parse(kind, BeforeCursor, character)
      /\ RangeEnd = character
      /\ Len(QueryText) <= character - RangeStart
      /\ QueryText = Slice(character - Len(QueryText), character)
      /\ kind = "entity" /\ result.syntax = "Wiki" =>
           NamedRefGrepString(result.query) = Slice(RangeStart + 2, character)

\* an unclosed Wiki entity result with a file and an index, the cursor
\* before a later complete reference
C12_Witness ==
    /\ Returned /\ result.link_type = "Unclosed"
    /\ kind = "entity" /\ result.syntax = "Wiki"
    /\ result.query.file_query # <<>>
    /\ result.query.infile_query.tag = "Index"
    /\ character <= Len(hay) - Len(LaterLink)
    /\ ReadsAt(Len(hay) - Len(LaterLink), LaterLink)

====
